---- MODULE Spec2Model ----
(***************************************************************************)
(* State-machine model of the coordination layer of seekapa-bi-agent.      *)
(*                                                                         *)
(*   Connection fabric   backend/app/services/websocket.py                 *)
(*   Workflow service    backend/app/services/logic_apps.py                *)
(*   Enhanced workflows  backend/app/services/logic_apps_enhanced.py       *)
(*                                                                         *)
(* Every handler is one action; a handler that suspends at an await where  *)
(* other tasks can run (the parallel sends of broadcast, an outstanding    *)
(* HTTP call) is split at that await.                                      *)
(***************************************************************************)
EXTENDS Integers, Sequences, FiniteSets, TLC

None == "none"

(***************************************************************************)
(* Bounds.  The capacities of the source (1000 connections, 50 frames per  *)
(* batch, 1000 dedup hashes) are scaled down so that                        *)
(* the full / flush / truncate cases are reached; they keep the source's   *)
(* names.                                                                  *)
(***************************************************************************)
max_connections == 2
max_batch_size == 2
cache_size_limit == 2
MaxFrames == 3
MaxFramesOne == 4
\* seconds of the clock that names LogicAppsService workflows
MaxNow == 1
\* trigger_workflow calls followed
MaxCalls == 2
\* executions of EnhancedLogicAppsService followed
MaxExec == 3
\* audit events logged in a run
MaxEvents == 3
batch_size == 2
\* the clock of the login service: ticks in a second, ticks in a run
TicksPerSecond == 2
MaxTime == 8
\* chat requests in a run, the clock of the response cache and its TTL
\* (3600 seconds in the source) in ticks
MaxRequests == 3
MaxAITime == 3
AI_CACHE_TTL == 2
\* calls of the cluster cache in a run
MaxCacheOps == 4
\* the rate limiter, scaled: 10 seconds a tick, the ticks of a run, the
\* requests kept for all clients together; 60 a minute and a burst of 10 in
\* the source
SecondsPerTick == 10
MaxRLTime == 7
MaxKept == 5
requests_per_minute == 3
burst_size == 2
\* login and logout requests in a run
MaxLogins == 4
MaxLogouts == 2
\* auth.py lines 31-34, scaled: 5 attempts, 30 minutes and 24 hours in the
\* source; the two durations are in seconds here
MAX_LOGIN_ATTEMPTS == 2
LOCKOUT_DURATION == 2
ACCESS_TOKEN_EXPIRE == 2
\* WorkflowDefinition.max_retries of the predefined refresh (3 in the source)
max_retries == 2

Clients == {"c1", "c2"}
OneClient == {"c1"}
Groups == {"default", "x"}
\* Frame contents a caller may pass to send_personal_message.
Bodies == {"a", "b"}
\* Frames whose content carries a timestamp (datetime.now().isoformat(),
\* time.time()): their content hash is new on every send.
StampedTypes == {"connection", "heartbeat", "heartbeat_reply"}
\* The idle notice of cleanup_inactive_connections has a fixed content.
NoticeType == "disconnect"

VARIABLES
    cm,     \* ConnectionManager with its ConnectionPool and MessageBatcher
    bc,     \* the broadcast call in flight (None when there is none)
    la,     \* LogicAppsService
    ela,    \* EnhancedLogicAppsService
    au,     \* AuditLogger and its Redis keys
    auth,   \* AuthService, its Redis keys and the login and logout endpoints
    rt,     \* the model router of EnhancedAzureAIService
    ai,     \* EnhancedAzureAIService.call_gpt5 with its cache and cost accounting
    rc,     \* RedisClusterService
    rl      \* RateLimitMiddleware

vars == <<cm, bc, la, ela, au, auth, rt, ai, rc, rl>>
nonWS == <<la, ela, au, auth, rt, ai, rc, rl>>
nonLA == <<cm, bc, ela, au, auth, rt, ai, rc, rl>>
nonELA == <<cm, bc, la, au, auth, rt, ai, rc, rl>>
nonAU == <<cm, bc, la, ela, auth, rt, ai, rc, rl>>
nonAuth == <<cm, bc, la, ela, au, rt, ai, rc, rl>>
nonRT == <<cm, bc, la, ela, au, auth, ai, rc, rl>>
nonAI == <<cm, bc, la, ela, au, auth, rt, rc, rl>>
nonRC == <<cm, bc, la, ela, au, auth, rt, ai, rl>>
nonRL == <<cm, bc, la, ela, au, auth, rt, ai, rc>>

----------------------------------------------------------------------------
(* Dictionaries: functions whose DOMAIN is the set of keys present.        *)

Put(f, k, v) == [x \in (DOMAIN f) \cup {k} |-> IF x = k THEN v ELSE f[x]]
Del(f, k) == [x \in (DOMAIN f) \ {k} |-> f[x]]
Get(f, k, d) == IF k \in DOMAIN f THEN f[k] ELSE d
EmptyDict == [x \in {} |-> None]
Min(a, b) == IF a <= b THEN a ELSE b

----------------------------------------------------------------------------
(* ConnectionPool                                                          *)

pool_full_off_by_one(s) == s.active_count > max_connections
\* acquire's test, line 34
pool_full(s) == s.active_count >= max_connections

\* acquire once the test passed: semaphore.acquire(), active_count += 1.
\* asyncio.Semaphore.acquire parks the caller when the value is 0.
acquire(s) ==
    IF s.sem_value > 0
    THEN [s EXCEPT !.sem_value = @ - 1, !.active_count = @ + 1]
    ELSE [s EXCEPT !.sem_waiters = @ + 1]

release(s) == [s EXCEPT !.active_count = @ - 1, !.sem_value = @ + 1]

\* get_stats()["waiting"]: waiting_queue is never appended to.
waiting(s) == Len(s.waiting_queue)

----------------------------------------------------------------------------
(* ConnectionManager.disconnect                                            *)

disconnect(s, c) ==
    IF c \notin s.active_connections
    THEN s
    ELSE release([s EXCEPT
            !.heartbeat_tasks = @ \ {c},
            !.connection_groups =
                [g \in Groups |->
                    IF g \in Get(s.client_groups, c, {})
                    THEN s.connection_groups[g] \ {c}
                    ELSE s.connection_groups[g]],
            !.client_groups = Del(@, c),
            !.active_connections = @ \ {c},
            !.connection_metadata = Del(@, c),
            !.message_queues = @ \ {c}])

----------------------------------------------------------------------------
(* Deduplication cache.  A cache is [known, stamped]: the hashes of        *)
(* fixed-content frames (the hash of a content is modelled by the content) *)
(* and the number of hashes of timestamped frames, which never match a     *)
(* later frame.                                                            *)

EmptyCache == [known |-> {}, stamped |-> 0]
cache_len(mc) == Cardinality(mc.known) + mc.stamped

\* lines 275-278
is_duplicate(s, c, t) ==
    /\ t \notin StampedTypes
    /\ t \in Get(s.message_cache, c, EmptyCache).known

\* line 283
cache_add(mc, t) ==
    IF t \in StampedTypes
    THEN [mc EXCEPT !.stamped = @ + 1]
    ELSE [mc EXCEPT !.known = @ \cup {t}]

\* lines 286-289: set(list(cache)[-limit:]) keeps limit elements of a set in
\* its iteration order, which is no order of insertion: any one element of
\* the limit+1 may be the one left out.
cache_limit(mc) ==
    IF cache_len(mc) <= cache_size_limit
    THEN {mc}
    ELSE {[mc EXCEPT !.known = @ \ {h}] : h \in mc.known}
         \cup (IF mc.stamped > 0 THEN {[mc EXCEPT !.stamped = @ - 1]} ELSE {})

----------------------------------------------------------------------------
(* MessageBatcher                                                          *)

\* add_message: append; True when the batch is full, else make sure a
\* _delayed_batch_send task exists and return False.
add_message(s, c, f) ==
    LET appended == Append(Get(s.batches, c, <<>>), f)
        s1 == [s EXCEPT !.batches = Put(@, c, appended)]
    IN  IF Len(appended) >= max_batch_size
        THEN s1
        ELSE IF c \notin DOMAIN s.batch_tasks \/ s.batch_tasks[c] = "done"
             THEN [s1 EXCEPT !.batch_tasks = Put(@, c, "pending")]
             ELSE s1

batch_full(s, c) == Len(Get(s.batches, c, <<>>)) >= max_batch_size

\* get_batch: copy and clear
get_batch(s, c) == Get(s.batches, c, <<>>)
clear_batch(s, c) == [s EXCEPT !.batches = Put(@, c, <<>>)]

----------------------------------------------------------------------------
(* ConnectionManager.send_personal_message                                 *)

\* websocket.send_json / send_bytes on the client's socket; a socket whose
\* peer is gone raises, and the handler of line 331 disconnects the client.
websocket_send(s, c, frames) ==
    IF c \in s.broken
    THEN disconnect(s, c)
    ELSE [s EXCEPT !.wire[c] = @ \o frames]

\* lines 298-329, after the frame passed the dedup cache
route_frame(s, c, f, bypass_batch) ==
    IF bypass_batch
    THEN websocket_send(s, c, <<f>>)
    ELSE LET s1 == add_message(s, c, f)
         IN  IF batch_full(s1, c)
             THEN websocket_send(clear_batch(s1, c), c, get_batch(s1, c))
             ELSE s1

\* The set of states send_personal_message can leave (the cache truncation
\* is the only choice it makes).
send_personal_message(s, c, t, bypass_batch) ==
    IF c \notin s.active_connections
    THEN {s}
    ELSE IF is_duplicate(s, c, t)
    THEN {s}
    ELSE LET f == [type |-> t, id |-> s.next_id]
         IN  { route_frame(
                 [s EXCEPT
                    !.message_cache = Put(@, c, mc),
                    !.connection_metadata[c] =
                        [last_activity |-> "float", idle |-> FALSE],
                    !.message_queues = @ \cup {c},
                    !.next_id = @ + 1],
                 c, f, bypass_batch)
               : mc \in cache_limit(
                    cache_add(Get(s.message_cache, c, EmptyCache), t)) }

----------------------------------------------------------------------------
(* ConnectionManager.connect                                               *)

Refused == [client |-> None, close_code |-> 1013]
Raised == [client |-> None, close_code |-> 0]
Admitted(c) == [client |-> c, close_code |-> 0]

connect(s, c, g, accept_ok) ==
    IF pool_full(s)
    THEN {[s EXCEPT !.connect_result = Refused]}
    ELSE LET s1 == acquire(s) IN
         IF s1.sem_waiters > 0
         THEN {s1}
         ELSE IF ~accept_ok
         THEN {[release(s1) EXCEPT !.connect_result = Raised]}
         ELSE LET s2 == [s1 EXCEPT
                    !.active_connections = @ \cup {c},
                    !.broken = @ \ {c},
                    !.connection_metadata =
                        Put(@, c, [last_activity |-> "float", idle |-> FALSE]),
                    !.connection_groups[g] = @ \cup {c},
                    !.client_groups = Put(@, c, Get(@, c, {}) \cup {g}),
                    !.orphan_heartbeats[c] =
                        IF c \in s1.heartbeat_tasks THEN @ + 1 ELSE @,
                    !.heartbeat_tasks = @ \cup {c}]
              IN  {[s3 EXCEPT !.connect_result = Admitted(c)]
                    : s3 \in send_personal_message(s2, c, "connection", TRUE)}

----------------------------------------------------------------------------
(* ConnectionManager.cleanup_inactive_connections                          *)

\* datetime.fromisoformat(metadata["last_activity"]) accepts a str only
parses(meta) == meta.last_activity = "iso"

RECURSIVE notify_and_disconnect(_, _)
notify_and_disconnect(S, todo) ==
    IF todo = {}
    THEN S
    ELSE LET c == CHOOSE x \in todo : TRUE
         IN  notify_and_disconnect(
                UNION { { disconnect(s1, c)
                          : s1 \in send_personal_message(s, c, NoticeType, FALSE) }
                        : s \in S },
                todo \ {c})

inactive(s) == {c \in DOMAIN s.connection_metadata : s.connection_metadata[c].idle}

\* cleanup_result is what cleanup_loop logs for the run: the error of line
\* 527, or the run came back.
cleanup_inactive_connections(s) ==
    IF \E c \in DOMAIN s.connection_metadata : ~parses(s.connection_metadata[c])
    THEN {[s EXCEPT !.cleanup_result = "error"]}    \* TypeError
    ELSE {[s1 EXCEPT !.cleanup_result = "returned"]
            : s1 \in notify_and_disconnect({s}, inactive(s))}

----------------------------------------------------------------------------
(* ConnectionManager.broadcast                                             *)

\* All orders in which a set can be iterated.
RECURSIVE Orders(_)
Orders(S) ==
    IF S = {}
    THEN {<<>>}
    ELSE UNION { {<<x>> \o o : o \in Orders(S \ {x})} : x \in S }

Range(q) == {q[i] : i \in 1..Len(q)}

\* lines 346-354
broadcast_targets(s, exclude_client, group_id) ==
    (IF group_id # None THEN s.connection_groups[group_id] ELSE s.active_connections)
        \ {exclude_client}

\* target_clients is the group's own set object when a group is given and
\* nobody is excluded, and a new set otherwise.
broadcast_aliases(exclude_client, group_id) ==
    IF group_id # None /\ exclude_client = None THEN group_id ELSE None

\* lines 344-364: resolve the targets, one send coroutine per target
broadcast_start(s, order, exclude_client, group_id) ==
    [ phase |-> "sending",
      frame |-> [type |-> "broadcast", id |-> s.next_id],
      members |-> IF group_id # None
                  THEN s.connection_groups[group_id] \cap s.active_connections
                  ELSE s.active_connections,
      exclude |-> exclude_client,
      alias |-> broadcast_aliases(exclude_client, group_id),
      target_clients |-> order,
      send_tasks |-> SelectSeq(order, LAMBDA c : c \in s.active_connections),
      results |-> <<>>,
      send_ops |-> [c \in Clients |-> 0] ]

\* Every send task writes to every target (the N-squared fan-out).
broadcast_send_fan_out(s, b) ==
    LET ok == b.send_tasks[Len(b.results) + 1] \notin s.broken
    IN  << [s EXCEPT !.wire = [c \in Clients |->
                IF c \in Range(b.send_tasks) /\ c \notin s.broken
                THEN Append(@[c], b.frame) ELSE @[c]]],
           [b EXCEPT !.results = Append(@, ok),
                     !.send_ops = [c \in Clients |->
                        IF c \in Range(b.send_tasks) THEN @[c] + 1 ELSE @[c]]] >>

\* _send_with_error_handling of the next task gather starts, on the socket
\* captured at line 361
broadcast_send(s, b) ==
    LET c == b.send_tasks[Len(b.results) + 1]
        ok == c \notin s.broken
    IN  << IF ok THEN [s EXCEPT !.wire[c] = Append(@, b.frame)] ELSE s,
           [b EXCEPT !.results = Append(@, ok), !.send_ops[c] = @ + 1] >>

\* The order in which line 370 iterates target_clients: the order of line
\* 359 when the set is the same, any order when the group's set changed
\* while the sends were in flight.
zip_orders(s, b) ==
    IF b.alias = None \/ s.connection_groups[b.alias] = Range(b.target_clients)
    THEN {b.target_clients}
    ELSE Orders(s.connection_groups[b.alias])

RECURSIVE disconnect_all(_, _)
disconnect_all(s, S) ==
    IF S = {}
    THEN s
    ELSE LET c == CHOOSE x \in S : TRUE
         IN  disconnect_all(disconnect(s, c), S \ {c})

\* lines 369-377
broadcast_collect(s, b, zipped) ==
    LET n == Min(Len(zipped), Len(b.results))
        disconnected_clients == {zipped[i] : i \in {j \in 1..n : ~b.results[j]}}
    IN  disconnect_all(s, disconnected_clients)

----------------------------------------------------------------------------
(* Initial state of the connection fabric: ConnectionManager.__init__      *)

ManagerInit(budget) ==
            [ active_count |-> 0,
              sem_value |-> max_connections,
              sem_waiters |-> 0,
              waiting_queue |-> <<>>,
              active_connections |-> {},
              broken |-> {},
              connection_metadata |-> EmptyDict,
              message_queues |-> {},
              batches |-> EmptyDict,
              batch_tasks |-> EmptyDict,
              heartbeat_tasks |-> {},
              orphan_heartbeats |-> [c \in Clients |-> 0],
              connection_groups |-> [g \in Groups |-> {}],
              client_groups |-> EmptyDict,
              message_cache |-> EmptyDict,
              connect_result |-> [client |-> None, close_code |-> 0],
              wire |-> [c \in Clients |-> <<>>],
              cleanup_result |-> None,
              next_id |-> 1,
              frame_budget |-> budget ]

\* Two clients, MaxFrames frames in a run.
InitWS ==
    /\ cm = ManagerInit(MaxFrames)
    /\ bc = [phase |-> "idle"]

\* One client id, MaxFramesOne frames in a run.
InitOne ==
    /\ cm = ManagerInit(MaxFramesOne)
    /\ bc = [phase |-> "idle"]

\* The runs explored end after frame_budget frames were created.
FrameBudget == cm.next_id <= cm.frame_budget

(* Actions of the connection fabric                                        *)

Connect(c, g, accept_ok) ==
    /\ FrameBudget
    /\ cm' \in connect(cm, c, g, accept_ok)
    /\ UNCHANGED <<bc, nonWS>>

Disconnect(c) ==
    /\ cm' = disconnect(cm, c)
    /\ UNCHANGED <<bc, nonWS>>

SendPersonalMessage(c, t, bypass_batch) ==
    /\ FrameBudget
    /\ cm' \in send_personal_message(cm, c, t, bypass_batch)
    /\ UNCHANGED <<bc, nonWS>>

\* _heartbeat_loop of the task registered in heartbeat_tasks
HeartbeatLoop(c) ==
    /\ FrameBudget
    /\ c \in cm.heartbeat_tasks
    /\ cm' \in send_personal_message(cm, c, "heartbeat", TRUE)
    /\ UNCHANGED <<bc, nonWS>>

\* _heartbeat_loop of a task that a later connect of the same client id
\* replaced in heartbeat_tasks: nothing cancels it, it ends when it wakes
\* while the client id is not connected.
OrphanHeartbeatLoop(c) ==
    /\ FrameBudget
    /\ cm.orphan_heartbeats[c] > 0
    /\ \E s1 \in send_personal_message(cm, c, "heartbeat", TRUE) :
         cm' = IF c \in s1.active_connections
               THEN s1
               ELSE [s1 EXCEPT !.orphan_heartbeats[c] = @ - 1]
    /\ UNCHANGED <<bc, nonWS>>

HandleHeartbeat(c) ==
    /\ FrameBudget
    /\ LET s1 == IF c \in DOMAIN cm.connection_metadata
                 THEN [cm EXCEPT !.connection_metadata[c].last_activity = "iso"]
                 ELSE cm
       IN  cm' \in send_personal_message(s1, c, "heartbeat_reply", FALSE)
    /\ UNCHANGED <<bc, nonWS>>

\* _delayed_batch_send: sleep(batch_window_ms / 1000); return True
DelayedBatchSend(c) ==
    /\ c \in DOMAIN cm.batch_tasks
    /\ cm.batch_tasks[c] = "pending"
    /\ cm' = [cm EXCEPT !.batch_tasks[c] = "done"]
    /\ UNCHANGED <<bc, nonWS>>

\* The peer of a connected client goes away; the server has not noticed.
PeerGone(c) ==
    /\ c \in cm.active_connections
    /\ c \notin cm.broken
    /\ cm' = [cm EXCEPT !.broken = @ \cup {c}]
    /\ UNCHANGED <<bc, nonWS>>

\* The clock read at line 480 (datetime.now(), wall clock) has moved more
\* than 30 minutes past every stored last_activity.
ClockAdvance ==
    /\ \E c \in DOMAIN cm.connection_metadata : ~cm.connection_metadata[c].idle
    /\ cm' = [cm EXCEPT !.connection_metadata =
                [c \in DOMAIN @ |-> [@[c] EXCEPT !.idle = TRUE]]]
    /\ UNCHANGED <<bc, nonWS>>

\* one run of cleanup_loop
Cleanup ==
    /\ FrameBudget
    /\ cm' \in cleanup_inactive_connections(cm)
    /\ UNCHANGED <<bc, nonWS>>

BroadcastStart(exclude_client, group_id) ==
    /\ FrameBudget
    /\ bc.phase = "idle"
    /\ \E order \in Orders(broadcast_targets(cm, exclude_client, group_id)) :
         bc' = broadcast_start(cm, order, exclude_client, group_id)
    /\ cm' = [cm EXCEPT !.next_id = @ + 1]
    /\ UNCHANGED nonWS

BroadcastSend ==
    /\ bc.phase = "sending"
    /\ Len(bc.results) < Len(bc.send_tasks)
    /\ cm' = broadcast_send(cm, bc)[1]
    /\ bc' = broadcast_send(cm, bc)[2]
    /\ UNCHANGED nonWS

BroadcastCollect ==
    /\ bc.phase = "sending"
    /\ Len(bc.results) = Len(bc.send_tasks)
    /\ \E zipped \in zip_orders(cm, bc) :
         cm' = broadcast_collect(cm, bc, zipped)
    /\ bc' = [phase |-> "idle"]
    /\ UNCHANGED nonWS

WSNext(CS) ==
    \/ \E c \in CS, g \in Groups, ok \in BOOLEAN : Connect(c, g, ok)
    \/ \E c \in CS : Disconnect(c)
    \/ \E c \in CS, t \in Bodies, b \in BOOLEAN : SendPersonalMessage(c, t, b)
    \/ \E c \in CS : HeartbeatLoop(c)
    \/ \E c \in CS : OrphanHeartbeatLoop(c)
    \/ \E c \in CS : HandleHeartbeat(c)
    \/ \E c \in CS : DelayedBatchSend(c)
    \/ \E c \in CS : PeerGone(c)
    \/ \E x \in CS \cup {None}, g \in Groups \cup {None} : BroadcastStart(x, g)
    \/ BroadcastSend
    \/ BroadcastCollect

\* ClockAdvance changes the idle marks only, which Cleanup alone reads: the
\* two are left to the one-client specification.
NextWS == WSNext(Clients)
NextOne == WSNext(OneClient) \/ ClockAdvance \/ Cleanup

----------------------------------------------------------------------------
(* LogicAppsService (logic_apps.py)                                        *)
(* la.now is the second datetime.now() reads, la.workflows the dictionary  *)
(* self.workflows keyed by the second of the trigger, la.calls the         *)
(* trigger_workflow coroutines started so far.  serial says which call     *)
(* stored a record; the program does not keep it.                          *)

WorkflowIds == 0..MaxNow
Responses == {"200", "202", "non2xx", "timeout", "error"}

\* lines 85-120: the id is the current second, the record is stored as
\* pending and set to running before the post is awaited
trigger_workflow(s, wait_for_response) ==
    LET workflow_id == s.now
        stored == [s EXCEPT !.workflows = Put(@, workflow_id,
                      [status |-> "pending", callback_response |-> FALSE,
                       serial |-> Len(s.calls) + 1])]
    IN  [stored EXCEPT
            !.workflows[workflow_id].status = "running",
            !.calls = Append(@, [workflow_id |-> workflow_id,
                                 wait_for_response |-> wait_for_response,
                                 pc |-> "posting", result |-> None])]

\* lines 122-176: the post came back (or timed out, or raised)
post_returns(s, i, resp) ==
    LET workflow_id == s.calls[i].workflow_id
        wait == s.calls[i].wait_for_response
    IN  IF resp \in {"200", "202"}
        THEN [s EXCEPT
                !.workflows[workflow_id].status = "completed",
                !.calls[i].pc = IF wait /\ resp = "202" THEN "waiting" ELSE "returned",
                !.calls[i].result = IF wait /\ resp = "202" THEN None
                                    ELSE IF wait THEN "completed" ELSE "accepted"]
        ELSE [s EXCEPT
                !.workflows[workflow_id].status = "failed",
                !.calls[i].pc = "returned",
                !.calls[i].result = IF resp = "non2xx" THEN "failed" ELSE resp]

\* _wait_for_callback, lines 178-198
wait_for_callback(s, i, in_time) ==
    [s EXCEPT !.calls[i].pc = "returned",
              !.calls[i].result = IF in_time THEN "completed" ELSE "timeout"]

\* A callback payload is the workflow it names and whether its timestamp
\* lies within 5 minutes of now; the x-logic-apps-signature header is absent
\* or the HMAC of some payload under some key, modelled by the pair.
SharedSecret == "k"
Secrets == {SharedSecret, "other"}
Payloads == [workflow_id : WorkflowIds, fresh : BOOLEAN]
hmac(key, payload) == [present |-> TRUE, key |-> key, payload |-> payload]
NoSignature ==
    [present |-> FALSE, key |-> "", payload |-> [workflow_id |-> 0, fresh |-> TRUE]]
Signatures == {NoSignature} \cup {hmac(k, p) : k \in Secrets, p \in Payloads}

\* _validate_webhook_signature, lines 266-285
validate_webhook_signature(s, payload, signature) ==
    IF ~signature.present
    THEN TRUE
    ELSE hmac(s.logic_app_key, payload) = signature

\* handle_webhook with webhook_type "callback", lines 217-241: the
\* signature is looked at only when a key is configured, the timestamp of
\* the payload never
handle_webhook(s, payload, signature) ==
    IF s.logic_app_key # "" /\ ~validate_webhook_signature(s, payload, signature)
    THEN s
    ELSE IF payload.workflow_id \in DOMAIN s.workflows
    THEN [s EXCEPT !.workflows[payload.workflow_id].callback_response = TRUE]
    ELSE s

\* lines 371-396
cancel_workflow(s, workflow_id) ==
    IF workflow_id \notin DOMAIN s.workflows
    THEN s
    ELSE IF s.workflows[workflow_id].status # "running"
    THEN s
    ELSE [s EXCEPT !.workflows[workflow_id].status = "cancelled"]

\* settings.AZURE_LOGIC_APP_KEY is the shared secret or unset ("", the
\* default of config.py)
InitLA ==
    la \in {[now |-> 0, workflows |-> EmptyDict, calls |-> <<>>,
             logic_app_key |-> k] : k \in {SharedSecret, ""}}

\* AZURE_LOGIC_APP_KEY as config.py leaves it
InitLAUnkeyed ==
    la = [now |-> 0, workflows |-> EmptyDict, calls |-> <<>>,
          logic_app_key |-> ""]

Tick ==
    /\ la.now < MaxNow
    /\ la' = [la EXCEPT !.now = @ + 1]
    /\ UNCHANGED nonLA

TriggerWorkflow(wait_for_response) ==
    /\ Len(la.calls) < MaxCalls
    /\ la' = trigger_workflow(la, wait_for_response)
    /\ UNCHANGED nonLA

PostReturns(i, resp) ==
    /\ i \in 1..Len(la.calls)
    /\ la.calls[i].pc = "posting"
    /\ la' = post_returns(la, i, resp)
    /\ UNCHANGED nonLA

CallbackSeen(i) ==
    /\ i \in 1..Len(la.calls)
    /\ la.calls[i].pc = "waiting"
    /\ la.workflows[la.calls[i].workflow_id].callback_response
    /\ la' = wait_for_callback(la, i, TRUE)
    /\ UNCHANGED nonLA

CallbackTimeout(i) ==
    /\ i \in 1..Len(la.calls)
    /\ la.calls[i].pc = "waiting"
    /\ ~la.workflows[la.calls[i].workflow_id].callback_response
    /\ la' = wait_for_callback(la, i, FALSE)
    /\ UNCHANGED nonLA

HandleWebhook(payload, signature) ==
    /\ la' = handle_webhook(la, payload, signature)
    /\ UNCHANGED nonLA

CancelWorkflow(workflow_id) ==
    /\ la' = cancel_workflow(la, workflow_id)
    /\ UNCHANGED nonLA

NextLA ==
    \/ Tick
    \/ \E w \in BOOLEAN : TriggerWorkflow(w)
    \/ \E i \in 1..MaxCalls, r \in Responses : PostReturns(i, r)
    \/ \E i \in 1..MaxCalls : CallbackSeen(i)
    \/ \E i \in 1..MaxCalls : CallbackTimeout(i)
    \/ \E p \in Payloads, sig \in Signatures : HandleWebhook(p, sig)
    \/ \E w \in WorkflowIds : CancelWorkflow(w)

----------------------------------------------------------------------------
(* EnhancedLogicAppsService (logic_apps_enhanced.py)                       *)
(* ela.workflows is self.workflows, the execution records in the order of  *)
(* their creation (the position stands for the uuid); ela.retry_count is   *)
(* WorkflowDefinition.retry_count.  outcome is what the external call of   *)
(* the execution came back with and pc where its coroutine stands; the     *)
(* program keeps neither.  ela.webhooks holds the notifications            *)
(* _trigger_webhook made (it only logs them).                              *)

Defs == {"powerbi_refresh", "data_analysis"}
\* a definition made by create_workflow with a scheduled trigger
CreatedDef == "created_scheduled"
AllDefs == Defs \cup {CreatedDef}
\* trigger_type of the definitions, lines 138-198 and 246
ScheduledDefs == {"powerbi_refresh", CreatedDef}
Outcomes == {"200", "202", "non2xx", "raised", "timeout"}

\* config of the predefined definitions, lines 138-198
retry_on_failure(d) == d = "powerbi_refresh"
cache_results(d) == d = "data_analysis"

\* what trigger_logic_app_workflow returns as "status", lines 638-671
trigger_logic_app_workflow(outcome) ==
    CASE outcome = "200" -> "completed"
      [] outcome = "202" -> "accepted"
      [] outcome = "non2xx" -> "failed"
      [] OTHER -> "error"

\* _register_enhanced_webhooks, lines 214-223 (the keys the model uses)
webhook_subscriptions ==
    [powerbi_refresh_complete |-> {"report_generator", "notification_service"},
     workflow_failed |-> {"monitoring_service", "notification_service"}]

\* _trigger_webhook, lines 673-678: one notification per subscriber of the
\* key; s.webhooks keeps the notifications made so far
trigger_webhook(s, webhook_type) ==
    IF webhook_type \in DOMAIN webhook_subscriptions
    THEN [s EXCEPT !.webhooks = @ \cup {<<webhook_type, subscriber>> :
                                          subscriber \in webhook_subscriptions[webhook_type]}]
    ELSE s

\* the except branch of execute_workflow, lines 376-398, up to the sleep
handle_failure(s, e) ==
    LET d == s.workflows[e].def
    IN  IF retry_on_failure(d) /\ s.retry_count[d] < max_retries
        THEN [s EXCEPT !.workflows[e].status = "failed",
                       !.workflows[e].pc = "sleeping",
                       !.workflows[e].wait = 60 * (s.retry_count[d] + 1),
                       !.retry_count[d] = @ + 1]
        ELSE [s EXCEPT !.workflows[e].status = "failed",
                       !.workflows[e].pc = "done"]

\* lines 316-353: the record is stored as pending, set to running and the
\* helper of the workflow type is entered; a payload the helper cannot
\* unpack raises before the external call.  attempt counts the calls of the
\* chain execute_workflow makes through line 391, wait is the sleep of
\* line 390 in seconds.
execute_workflow(s, d, payload_ok, attempt) ==
    LET e == Len(s.workflows) + 1
        stored == [s EXCEPT !.workflows = Append(@,
                      [def |-> d, payload_ok |-> payload_ok,
                       status |-> "pending", outcome |-> None,
                       result |-> None, pc |-> "calling",
                       attempt |-> attempt, wait |-> 0])]
        running == [stored EXCEPT !.workflows[e].status = "running"]
    IN  IF payload_ok THEN running ELSE handle_failure(running, e)

\* lines 355-374
complete(s, e) ==
    [s EXCEPT !.workflows[e].status = "completed",
              !.workflows[e].pc = "done"]

\* the external call of the helper came back, lines 400-438 and 537-580
call_returns(s, e, outcome) ==
    LET s0 == [s EXCEPT !.workflows[e].outcome = outcome,
                        !.workflows[e].result = trigger_logic_app_workflow(outcome)]
        \* lines 430-436, in _execute_powerbi_refresh only
        s1 == IF s.workflows[e].def = "powerbi_refresh"
                 /\ trigger_logic_app_workflow(outcome) = "completed"
              THEN trigger_webhook(s0, "powerbi_refresh_complete")
              ELSE s0
    IN  IF cache_results(s.workflows[e].def)
        THEN [s1 EXCEPT !.workflows[e].pc = "caching"]
        ELSE complete(s1, e)

\* await self.cache_service.set(...), line 574
cache_set(s, e, ok) ==
    IF ok THEN complete(s, e) ELSE handle_failure(s, e)

\* lines 390-391: after the sleep a new execution of the same definition
retry(s, e) ==
    execute_workflow([s EXCEPT !.workflows[e].pc = "done"],
                     s.workflows[e].def, s.workflows[e].payload_ok,
                     s.workflows[e].attempt + 1)

\* create_workflow, lines 225-258: the definition is stored and, its
\* trigger being scheduled, handed to _schedule_workflow (260-291), which
\* registers a job with the schedule module; at_ok says whether the module
\* takes the "hour:minute" text made from the cron expression (if not, at()
\* raises out of create_workflow after the definition was stored).
create_workflow(s, d, at_ok) ==
    LET stored == [s EXCEPT !.workflow_definitions = @ \cup {d}]
    IN  IF at_ok
        THEN [stored EXCEPT !.jobs = @ \cup {d},
                            !.scheduled_workflows = @ \cup {d}]
        ELSE stored

\* One pass of run_scheduler (lines 206-209): run_pending runs the due jobs;
\* a job is _execute_scheduled_workflow (293-295), whose
\* asyncio.create_task raises RuntimeError in the scheduler thread, which
\* has no running event loop: the thread ends and no execution is stored.
run_pending(s) ==
    IF s.jobs \cap s.due = {}
    THEN [s EXCEPT !.due = {}]
    ELSE [s EXCEPT !.due = {}, !.scheduler_thread = "dead"]

\* after initialize(), lines 107-124: the predefined definitions are stored
\* (134-200), the scheduler thread is started (202-212)
InitELA ==
    ela = [workflows |-> <<>>,
           retry_count |-> [d \in AllDefs |-> 0],
           workflow_definitions |-> Defs,
           jobs |-> {},
           scheduled_workflows |-> {},
           scheduler_thread |-> "running",
           due |-> {},
           webhooks |-> {}]

ExecuteWorkflow(d, payload_ok) ==
    /\ d \in ela.workflow_definitions
    /\ Len(ela.workflows) < MaxExec
    /\ ela' = execute_workflow(ela, d, payload_ok, 1)
    /\ UNCHANGED nonELA

CallReturns(e, outcome) ==
    /\ e \in 1..Len(ela.workflows)
    /\ ela.workflows[e].pc = "calling"
    /\ ela.workflows[e].status = "running"
    /\ ela' = call_returns(ela, e, outcome)
    /\ UNCHANGED nonELA

CacheSet(e, ok) ==
    /\ e \in 1..Len(ela.workflows)
    /\ ela.workflows[e].pc = "caching"
    /\ ela' = cache_set(ela, e, ok)
    /\ UNCHANGED nonELA

RetryAfterSleep(e) ==
    /\ e \in 1..Len(ela.workflows)
    /\ ela.workflows[e].pc = "sleeping"
    /\ Len(ela.workflows) < MaxExec
    /\ ela' = retry(ela, e)
    /\ UNCHANGED nonELA

CreateWorkflow(at_ok) ==
    /\ CreatedDef \notin ela.workflow_definitions
    /\ ela' = create_workflow(ela, CreatedDef, at_ok)
    /\ UNCHANGED nonELA

\* The schedule expression of a stored scheduled definition becomes due.
ScheduleDue(d) ==
    /\ d \in ela.workflow_definitions \cap ScheduledDefs
    /\ d \notin ela.due
    /\ ela' = [ela EXCEPT !.due = @ \cup {d}]
    /\ UNCHANGED nonELA

RunPending ==
    /\ ela.scheduler_thread = "running"
    /\ ela' = run_pending(ela)
    /\ UNCHANGED nonELA

NextELA ==
    \/ \E d \in AllDefs, ok \in BOOLEAN : ExecuteWorkflow(d, ok)
    \/ \E e \in 1..MaxExec, o \in Outcomes : CallReturns(e, o)
    \/ \E e \in 1..MaxExec, ok \in BOOLEAN : CacheSet(e, ok)
    \/ \E e \in 1..MaxExec : RetryAfterSleep(e)

----------------------------------------------------------------------------
(* AuditLogger (audit.py)                                                  *)
(* au.store holds the events under audit:event:<id> in the order they were *)
(* stored (the position is the event id and its timestamp), au.last_hash   *)
(* the key audit:last_hash (<<>> while it is not set).  A SHA-256 digest   *)
(* is modelled by the sequence of the values it was computed over.         *)
(* au.logged keeps the events as log_event stored them and au.sending the  *)
(* log_event calls suspended in _send_to_external; au.report is the last   *)
(* compliance report.  au.queue is the list audit:queue (its head is the  *)
(* left end), au.batch the batch _process_queue is sending (<<>> when it   *)
(* is between rounds), au.sink the event ids the external service took in  *)
(* a batch and au.requeued the ids put back after a failed delivery.       *)

\* AUDIT_EXTERNAL_ENDPOINT is set
external_endpoint == TRUE

AuditActions == {"login", "export"}
AuditDetails == {"d1", "d2"}

\* _calculate_event_hash, lines 122-135: id, timestamp, type, action, result
\* and user, then the hash found under audit:last_hash
calculate_event_hash(s, event) ==
    <<event.event_id, event.action>> \o s.last_hash

\* The pointer is left as it was.
log_event_keeps_pointer(s, action, critical) ==
    LET event == [event_id |-> Len(s.store) + 1, action |-> action,
                  details |-> "d1", hash |-> <<>>]
        stored == [event EXCEPT !.hash = calculate_event_hash(s, event)]
    IN  [s EXCEPT !.store = Append(@, stored),
                  !.logged = Append(@, stored),
                  !.queue = <<event.event_id>> \o @,
                  !.sending = IF critical THEN @ + 1 ELSE @]

\* log_event, lines 156-215, up to the await of line 212 (taken for the
\* severities high and critical)
log_event(s, action, critical) ==
    LET event == [event_id |-> Len(s.store) + 1, action |-> action,
                  details |-> "d1", hash |-> <<>>]
        stored == [event EXCEPT !.hash = calculate_event_hash(s, event)]
    IN  [s EXCEPT !.store = Append(@, stored),
                  !.logged = Append(@, stored),
                  !.last_hash = stored.hash,
                  !.queue = <<event.event_id>> \o @,
                  !.sending = IF critical THEN @ + 1 ELSE @]

\* lpush of every event of the batch, in the order of the batch
RECURSIVE lpush_all(_, _)
lpush_all(queue, events) ==
    IF events = <<>> THEN queue
    ELSE lpush_all(<<Head(events)>> \o queue, Tail(events))

\* one round of _process_queue, lines 258-282, up to the await: rpop takes
\* up to batch_size ids from the right end; the batch is sent when it is not
\* empty and an endpoint is configured
process_queue(s) ==
    LET n == Min(batch_size, Len(s.queue))
        rest == SubSeq(s.queue, 1, Len(s.queue) - n)
        batch == [i \in 1..n |-> s.queue[Len(s.queue) + 1 - i]]
    IN  [s EXCEPT !.queue = rest,
                  !.batch = IF external_endpoint THEN batch ELSE <<>>]

\* The events of a failed batch are not put back.
send_batch_to_external_drops(s, response) ==
    IF response = "2xx"
    THEN [s EXCEPT !.sink = @ \cup Range(s.batch), !.batch = <<>>]
    ELSE [s EXCEPT !.batch = <<>>]

\* _send_batch_to_external, lines 284-309: the post came back with a
\* status or raised; anything but 200, 201, 202 puts the events back
send_batch_to_external(s, response) ==
    IF response = "2xx"
    THEN [s EXCEPT !.sink = @ \cup Range(s.batch), !.batch = <<>>]
    ELSE [s EXCEPT !.queue = lpush_all(@, s.batch),
                   !.requeued = @ \cup Range(s.batch),
                   !.batch = <<>>]

\* query_events over a date range, lines 328-366: timedelta is not imported
\* in audit.py, so line 337 raises NameError in the first round of the loop;
\* line 364 catches it and the list returned is still empty.
query_events(s) == <<>>

\* _verify_integrity, lines 428-441: each hash is recomputed with the
\* pointer as it is now
verify_integrity(s, events) ==
    \A i \in 1..Len(events) : events[i].hash = calculate_event_hash(s, events[i])

\* generate_compliance_report, lines 370-426
generate_compliance_report(s) ==
    LET events == query_events(s)
    IN  [total_events |-> Len(events),
         integrity_verified |-> verify_integrity(s, events)]

NoReport == [total_events |-> 0 - 1, integrity_verified |-> FALSE]

InitAU ==
    au = [store |-> <<>>, logged |-> <<>>, last_hash |-> <<>>,
          sending |-> 0, report |-> NoReport,
          queue |-> <<>>, batch |-> <<>>, sink |-> {}, requeued |-> {}]

LogEvent(action, critical) ==
    /\ Len(au.store) < MaxEvents
    /\ au' = log_event(au, action, critical)
    /\ UNCHANGED nonAU

\* _send_to_external came back: the rest of log_event, lines 213-215
LogEventReturns ==
    /\ au.sending > 0
    /\ au' = [au EXCEPT !.sending = @ - 1]
    /\ UNCHANGED nonAU

\* The processor wakes up and takes a batch (a round that finds the queue
\* empty changes nothing).
ProcessQueue ==
    /\ au.batch = <<>>
    /\ au.queue # <<>>
    /\ au' = process_queue(au)
    /\ UNCHANGED nonAU

BatchDelivered ==
    /\ au.batch # <<>>
    /\ au' = send_batch_to_external(au, "2xx")
    /\ UNCHANGED nonAU

BatchFails(response) ==
    /\ au.batch # <<>>
    /\ response # "2xx"
    /\ au' = send_batch_to_external(au, response)
    /\ UNCHANGED nonAU

NextEgress ==
    \/ \E a \in AuditActions, c \in BOOLEAN : LogEvent(a, c)
    \/ LogEventReturns
    \/ ProcessQueue
    \/ BatchDelivered
    \/ \E r \in {"non2xx", "raised"} : BatchFails(r)

\* Somebody with access to the store changes a field of a stored event.
TamperAction(i, action) ==
    /\ i \in 1..Len(au.store)
    /\ au.store[i].action # action
    /\ au' = [au EXCEPT !.store[i].action = action]
    /\ UNCHANGED nonAU

TamperDetails(i, details) ==
    /\ i \in 1..Len(au.store)
    /\ au.store[i].details # details
    /\ au' = [au EXCEPT !.store[i].details = details]
    /\ UNCHANGED nonAU

\* a report over a window that holds every stored event
GenerateComplianceReport ==
    /\ au' = [au EXCEPT !.report = generate_compliance_report(au)]
    /\ UNCHANGED nonAU

NextAU ==
    \/ \E a \in AuditActions, c \in BOOLEAN : LogEvent(a, c)
    \/ LogEventReturns
    \/ \E i \in 1..MaxEvents, a \in AuditActions : TamperAction(i, a)
    \/ \E i \in 1..MaxEvents, d \in AuditDetails : TamperDetails(i, d)
    \/ GenerateComplianceReport

----------------------------------------------------------------------------
(* AuthService (auth.py) and the login and logout endpoints                *)
(* (main_secured.py), for the one local account.  auth.now counts ticks.   *)
(* A Redis key with an expiry is kept as the tick it expires at: the key   *)
(* exists while that tick is ahead of now, 0 stands for a key never set.   *)
(* auth.token is the access token of the last successful login, with exp   *)
(* in whole seconds as a JWT carries it.  auth.fails, last_success,        *)
(* auth.fails holds the ticks of the logins refused with 401 and           *)
(* fails_at_success how many of them there were at the last successful     *)
(* login; with password_ok, revoked, logged_out and the two results they   *)
(* are history kept for the properties; logins and logouts count the       *)
(* requests.  auth.refresh_token says that the login issued a refresh      *)
(* token and auth.minted is the access token the refresh endpoint made     *)
(* from it.                                                                *)

exists(expires_at, now) == expires_at > now

NoToken == [present |-> FALSE, exp |-> 0]

\* Nobody is ever locked out.
check_login_attempts_open(s) == TRUE

\* _check_login_attempts, lines 161-170
check_login_attempts(s) ==
    ~ ( /\ exists(s.attempts_exp, s.now)
        /\ s.attempts >= MAX_LOGIN_ATTEMPTS
        /\ exists(s.lockout_exp, s.now) )

\* _record_failed_attempt, lines 172-181
record_failed_attempt(s) ==
    LET attempts == (IF exists(s.attempts_exp, s.now) THEN s.attempts ELSE 0) + 1
        until == s.now + LOCKOUT_DURATION * TicksPerSecond
    IN  [s EXCEPT !.attempts = attempts,
                  !.attempts_exp = until,
                  !.lockout_exp = IF attempts >= MAX_LOGIN_ATTEMPTS THEN until ELSE @]

\* _clear_failed_attempts, lines 183-186
clear_failed_attempts(s) ==
    [s EXCEPT !.attempts = 0, !.attempts_exp = 0, !.lockout_exp = 0]

\* login, main_secured.py lines 289-398; authenticate_azure_user returns None
\* without an MSAL application and the local account decides
login(s, password_ok) ==
    IF ~check_login_attempts(s)
    THEN [s EXCEPT !.login_result = "429", !.logins = @ + 1,
                   !.password_ok = password_ok]
    ELSE IF ~password_ok
    THEN [record_failed_attempt(s) EXCEPT !.login_result = "401",
                                          !.logins = @ + 1,
                                          !.password_ok = password_ok,
                                          !.fails = Append(@, s.now)]
    ELSE [clear_failed_attempts(s) EXCEPT
              !.login_result = "200",
              !.logins = @ + 1,
              !.password_ok = password_ok,
              !.fails_at_success = Len(s.fails),
              \* create_session, lines 299-321
              !.session_exp = s.now + ACCESS_TOKEN_EXPIRE * TicksPerSecond,
              \* create_access_token, lines 188-198
              !.token = [present |-> TRUE,
                         exp |-> (s.now \div TicksPerSecond) + ACCESS_TOKEN_EXPIRE],
              !.blacklist_exp = 0,
              !.revoked = FALSE,
              !.logged_out = FALSE,
              \* create_refresh_token, lines 200-210: it carries the session
              \* id and lives for days, beyond the times looked at here
              !.refresh_token = TRUE,
              !.minted = NoToken]

\* jwt.decode, line 215: the token is refused once the whole second of now
\* is past exp
jwt_decode(s) == s.token.present /\ (s.now \div TicksPerSecond) <= s.token.exp

\* decode_token, lines 212-231: TRUE for a payload, FALSE for the 401
decode_token(s) == jwt_decode(s) /\ ~exists(s.blacklist_exp, s.now)

\* revoke_token, lines 233-247: int(ttl) drops the fraction of a second, and
\* Redis refuses SETEX with 0 seconds (the except of line 246 logs it)
revoke_token(s) ==
    LET ttl == s.token.exp * TicksPerSecond - s.now
        seconds == ttl \div TicksPerSecond
    IN  IF decode_token(s) /\ ttl > 0 /\ seconds > 0
        THEN [s EXCEPT !.blacklist_exp = s.now + seconds * TicksPerSecond]
        ELSE s

\* get_current_user, lines 368-403, with validate_session, lines 323-336:
\* the state after it, and whether it let the request through
get_current_user(s) ==
    IF decode_token(s) /\ exists(s.session_exp, s.now)
    THEN [ok |-> TRUE,
          state |-> [s EXCEPT !.session_exp =
                                  s.now + ACCESS_TOKEN_EXPIRE * TicksPerSecond]]
    ELSE [ok |-> FALSE, state |-> s]

\* The endpoint without its dependency.
logout_unauthenticated(s) ==
    [revoke_token(s) EXCEPT !.session_exp = 0,
                            !.logout_result = "200",
                            !.logouts = @ + 1,
                            !.logged_out = TRUE]

\* logout, main_secured.py lines 403-434, behind Depends(get_current_user)
logout(s) ==
    LET user == get_current_user(s)
    IN  IF ~user.ok
        THEN [s EXCEPT !.logout_result = "401", !.logouts = @ + 1]
        ELSE [revoke_token(user.state) EXCEPT !.session_exp = 0,
                                              !.logout_result = "200",
                                              !.logouts = @ + 1,
                                              !.logged_out = TRUE]

\* refresh_token, main_secured.py lines 437-478: the refresh token is
\* decoded (its jti is on no blacklist: logout revokes the token of the
\* Authorization header only) and an access token with a new jti and the
\* session id of the login is made
refresh_token(s) ==
    IF ~s.refresh_token
    THEN s
    ELSE [s EXCEPT !.minted = [present |-> TRUE,
                               exp |-> (s.now \div TicksPerSecond) + ACCESS_TOKEN_EXPIRE]]

\* decode_token for the minted token, whose jti nobody revoked
decode_minted(s) == s.minted.present /\ (s.now \div TicksPerSecond) <= s.minted.exp

\* get_current_user for the minted token, lines 368-403: whether it lets
\* the request through
get_current_user_minted(s) == decode_minted(s) /\ exists(s.session_exp, s.now)

\* websocket_chat, main_secured.py lines 918-932: whether a connection
\* presenting the minted token is accepted
websocket_chat(s) == decode_minted(s)

InitAuth ==
    auth = [now |-> 0, attempts |-> 0, attempts_exp |-> 0, lockout_exp |-> 0,
            token |-> NoToken, blacklist_exp |-> 0, session_exp |-> 0,
            refresh_token |-> FALSE, minted |-> NoToken,
            logins |-> 0, logouts |-> 0, fails |-> <<>>, fails_at_success |-> 0,
            password_ok |-> FALSE,
            revoked |-> FALSE, logged_out |-> FALSE,
            login_result |-> None, logout_result |-> None]

AuthTick ==
    /\ auth.now < MaxTime
    /\ auth' = [auth EXCEPT !.now = @ + 1]
    /\ UNCHANGED nonAuth

Login(password_ok) ==
    /\ auth.logins < MaxLogins
    /\ auth' = login(auth, password_ok)
    /\ UNCHANGED nonAuth

\* revoke_token for a token that is issued and not expired
RevokeToken ==
    /\ auth.token.present
    /\ auth.now < auth.token.exp * TicksPerSecond
    /\ auth' = [revoke_token(auth) EXCEPT !.revoked = TRUE]
    /\ UNCHANGED nonAuth

Logout ==
    /\ auth.token.present
    /\ auth.logouts < MaxLogouts
    /\ auth' = logout(auth)
    /\ UNCHANGED nonAuth

\* POST /api/v1/auth/refresh with the refresh token of the last login.  The
\* endpoint changes nothing on the server, so only the requests whose token
\* the properties look at are followed: the first one after a logout.
RefreshToken ==
    /\ auth.refresh_token
    /\ auth.logged_out
    /\ ~auth.minted.present
    /\ auth' = refresh_token(auth)
    /\ UNCHANGED nonAuth

NextAuth ==
    \/ AuthTick
    \/ \E ok \in BOOLEAN : Login(ok)
    \/ RevokeToken
    \/ Logout
    \/ RefreshToken

----------------------------------------------------------------------------
(* The model router of EnhancedAzureAIService (azure_ai_enhanced.py)       *)
(* A query is the record of what the analysers count in its text; the      *)
(* scores of ModelSelector are kept in hundredths.  rt is the last         *)
(* selection with its inputs; rt.query is "" when the rules were applied   *)
(* to a level and a token count given directly.                            *)

Levels == <<"simple", "medium", "complex", "advanced">>
Contexts == {"none", "empty", "high_accuracy"}
TokenCounts == {0, 512, 513, 1536, 1537, 4000}
HistoryTokens == {0, 600, 2000}

\* three queries, with what the analysers find in them
Queries ==
    { [text |-> "compare quarters", complex_matches |-> 1, simple_matches |-> 0,
       medium_matches |-> 0, word_count |-> 2, token_count |-> 2,
       patterns |-> {}, indicators |-> 0],
      [text |-> "explain why sales changed and describe the breakdown",
       complex_matches |-> 0, simple_matches |-> 0, medium_matches |-> 4,
       word_count |-> 8, token_count |-> 8, patterns |-> {}, indicators |-> 0],
      [text |-> "forecast and predict the revenue trend with a regression model",
       complex_matches |-> 5, simple_matches |-> 0, medium_matches |-> 0,
       word_count |-> 10, token_count |-> 11, patterns |-> {}, indicators |-> 4] }

\* analyze_query_complexity, model_selector.py lines 49-127: the scores
complexity_scores(q) ==
    [l \in {"simple", "medium", "complex", "advanced"} |->
        CASE l = "simple" ->
                 q.simple_matches * 40
                 + (IF q.word_count < 10 THEN 30 ELSE 0)
                 + (IF q.token_count < 20 THEN 20 ELSE 0)
          [] l = "medium" ->
                 q.medium_matches * 35
                 + (IF q.word_count >= 10 /\ q.word_count < 25 THEN 30 ELSE 0)
                 + (IF q.token_count >= 20 /\ q.token_count < 50 THEN 20 ELSE 0)
          [] l = "complex" ->
                 q.complex_matches * 30
                 + (IF q.word_count >= 25 /\ q.word_count < 50 THEN 30 ELSE 0)
                 + (IF q.token_count >= 50 /\ q.token_count < 100 THEN 20 ELSE 0)
                 + (IF "YoY" \in q.patterns THEN 30 ELSE 0)
                 + (IF "DAX" \in q.patterns THEN 20 ELSE 0)
          [] OTHER ->
                 (IF q.complex_matches > 3 THEN (q.complex_matches - 3) * 20 ELSE 0)
                 + (IF q.word_count >= 50 THEN 40 ELSE 0)
                 + (IF q.token_count >= 100 THEN 30 ELSE 0)
                 + (IF "AI" \in q.patterns THEN 40 ELSE 0)]

\* line 124: max over the dict, the first level of the highest score
analyze_query_complexity(q) ==
    LET scores == complexity_scores(q)
        best == CHOOSE i \in 1..4 :
                    /\ \A j \in 1..4 : scores[Levels[j]] <= scores[Levels[i]]
                    /\ \A j \in 1..(i - 1) : scores[Levels[j]] < scores[Levels[i]]
    IN  Levels[best]

\* The first rule with < for <=.
apply_cost_optimization_rules_strict(complexity_level, total_tokens, indicators, context) ==
    IF total_tokens < 512 THEN "gpt-5-nano"
    ELSE IF total_tokens < 1536 THEN "gpt-5-mini"
    ELSE IF complexity_level = "simple" THEN "gpt-5-nano"
    ELSE IF complexity_level = "medium"
         THEN IF context = "high_accuracy" THEN "gpt-5-chat" ELSE "gpt-5-mini"
    ELSE IF complexity_level = "complex"
         THEN IF indicators >= 2 THEN "gpt-5" ELSE "gpt-5-chat"
    ELSE "gpt-5"

\* _apply_cost_optimization_rules, lines 233-262 (the rest is unreachable)
apply_cost_optimization_rules(complexity_level, total_tokens, indicators, context) ==
    IF total_tokens <= 512 THEN "gpt-5-nano"
    ELSE IF total_tokens <= 1536 THEN "gpt-5-mini"
    ELSE IF complexity_level = "simple" THEN "gpt-5-nano"
    ELSE IF complexity_level = "medium"
         THEN IF context = "high_accuracy" THEN "gpt-5-chat" ELSE "gpt-5-mini"
    ELSE IF complexity_level = "complex"
         THEN IF indicators >= 2 THEN "gpt-5" ELSE "gpt-5-chat"
    ELSE "gpt-5"

\* _select_optimal_model, lines 181-231
select_optimal_model(q, context, history_tokens) ==
    LET complexity_level == analyze_query_complexity(q)
        total_tokens == q.token_count + history_tokens
    IN  [query |-> q.text, complexity_level |-> complexity_level,
         total_tokens |-> total_tokens, indicators |-> q.indicators,
         context |-> context,
         selected |-> apply_cost_optimization_rules(
                          complexity_level, total_tokens, q.indicators, context)]

InitRT ==
    rt = [query |-> "", complexity_level |-> "simple", total_tokens |-> 0,
          indicators |-> 0, context |-> "none", selected |-> None]

ApplyCostOptimizationRules(complexity_level, total_tokens, indicators, context) ==
    /\ rt' = [query |-> "", complexity_level |-> complexity_level,
              total_tokens |-> total_tokens, indicators |-> indicators,
              context |-> context,
              selected |-> apply_cost_optimization_rules(
                               complexity_level, total_tokens, indicators, context)]
    /\ UNCHANGED nonRT

SelectOptimalModel(q, context, history_tokens) ==
    /\ rt' = select_optimal_model(q, context, history_tokens)
    /\ UNCHANGED nonRT

NextRT ==
    \/ \E l \in {"simple", "medium", "complex", "advanced"}, t \in TokenCounts,
          i \in 0..2, c \in Contexts : ApplyCostOptimizationRules(l, t, i, c)
    \/ \E q \in Queries, c \in Contexts, h \in HistoryTokens :
          SelectOptimalModel(q, c, h)

----------------------------------------------------------------------------
(* EnhancedAzureAIService.call_gpt5 (azure_ai_enhanced.py) with the         *)
(* response cache of CacheService (cache.py), an API key being configured  *)
(* and Redis reachable.  ai.cache maps a key <<model, prompt>> to the       *)
(* reply stored under it and the tick it expires at; costs are in          *)
(* hundredths of the weight of the full variant.  ai.served, http_calls,   *)
(* hit, raised, reply and answered (for each non-streaming request         *)
(* answered with 200 its reply and the tick of the answer) are history     *)
(* kept for the properties, and so is stored_for: the context of the       *)
(* request whose reply a cache key holds.                                  *)

\* model_configs, lines 56-85: cost_multiplier
cost_multiplier(model) ==
    CASE model = "gpt-5-nano" -> 10
      [] model = "gpt-5-mini" -> 25
      [] model = "gpt-5-chat" -> 40
      [] OTHER -> 100

HttpOutcomes == {"200", "non-2xx", "timeout"}

\* _generate_key of cache.py, lines 38-50, for the prefix ai_response_<model>
generate_key(model, prompt) == <<model, prompt>>

\* cache_ai_response, cache.py lines 166-192
cache_ai_response(s, prompt, response, model) ==
    [s EXCEPT !.cache = Put(@, generate_key(model, prompt),
                            [response |-> response,
                             expires |-> s.now + AI_CACHE_TTL])]

\* get_cached_ai_response, cache.py lines 194-216: the key, when it holds a reply
cached_keys(s, prompt, model) ==
    {k \in DOMAIN s.cache :
        k = generate_key(model, prompt) /\ s.cache[k].expires > s.now}

\* _get_response_with_metrics, lines 431-470: the string it returns
get_response_with_metrics(model, prompt, outcome) ==
    CASE outcome = "200" -> <<"content", model, prompt>>
      [] outcome = "non-2xx" -> <<"I apologize, but I encountered an error">>
      [] OTHER -> <<"The request timed out.">>

\* call_gpt5, lines 98-179
call_gpt5(s, q, context, history_tokens, stream, outcome) ==
    LET hits == cached_keys(s, q.text, "gpt-5")
        key == CHOOSE k \in hits : TRUE
        selection == select_optimal_model(q, context, history_tokens)
        model == selection.selected
        response == get_response_with_metrics(model, q.text, outcome)
        \* lines 204-215 of _select_optimal_model
        accounted == [s EXCEPT !.baseline_cost = @ + cost_multiplier("gpt-5"),
                               !.total_cost = @ + cost_multiplier(model),
                               !.requests_optimized = @ + 1,
                               !.http_calls = @ + 1,
                               !.served = @ + 1,
                               !.hit = FALSE,
                               !.raised = FALSE,
                               !.outcome = outcome,
                               !.reply = response]
    IN  IF hits # {} /\ ~stream
        THEN [s EXCEPT !.cache_hits = @ + 1,
                       !.served = @ + 1,
                       !.hit = TRUE,
                       !.raised = FALSE,
                       !.outcome = None,
                       !.reply = s.cache[key].response]
        ELSE IF stream
        THEN accounted
        ELSE \* line 167: none of the three strings holds "Error"
             [cache_ai_response(accounted, q.text, response, model) EXCEPT
                 !.stored_for = Put(@, generate_key(model, q.text), context),
                 !.answered = IF outcome = "200"
                              THEN Put(@, <<q.text, context, history_tokens>>,
                                       [reply |-> response, at |-> s.now])
                              ELSE @]

InitAI ==
    ai = [now |-> 0, cache |-> EmptyDict,
          cache_hits |-> 0, baseline_cost |-> 0, total_cost |-> 0,
          requests_optimized |-> 0, fallback_usage |-> 0,
          served |-> 0, http_calls |-> 0, hit |-> FALSE, raised |-> FALSE,
          outcome |-> None, reply |-> <<>>, answered |-> EmptyDict,
          stored_for |-> EmptyDict]

AITick ==
    /\ ai.now < MaxAITime
    /\ ai' = [ai EXCEPT !.now = @ + 1]
    /\ UNCHANGED nonAI

CallGpt5(q, context, history_tokens, stream, outcome) ==
    /\ ai.served < MaxRequests
    /\ ai' = call_gpt5(ai, q, context, history_tokens, stream, outcome)
    /\ UNCHANGED nonAI

NextAI ==
    \/ AITick
    \/ \E q \in Queries, c \in {"none", "high_accuracy"}, h \in {0, 2000},
          stream \in BOOLEAN, o \in HttpOutcomes : CallGpt5(q, c, h, stream, o)

----------------------------------------------------------------------------
(* RedisClusterService (redis_cluster.py)                                  *)
(* rc.store maps each key held by Redis to the groups and dependencies     *)
(* its entry was stored with; invalidation_groups and dependency_map are   *)
(* the two tracking dicts (a missing entry is the empty set).  rc.last     *)
(* and rc.ops tell the calls apart; rc.result is what the last             *)
(* invalidate_group returned.                                              *)

RKeys == {"k1", "k2", "k3"}
RGroups == {"g1", "g2"}

\* get, lines 188-218: whether a value is returned
get(s, key) == key \in DOMAIN s.store

\* set, lines 220-269
set(s, key, groups, dependencies) ==
    [s EXCEPT
        !.store = Put(@, key, [groups |-> groups, dependencies |-> dependencies]),
        !.invalidation_groups =
            [g \in RGroups |-> IF g \in groups THEN @[g] \cup {key} ELSE @[g]],
        !.dependency_map =
            IF dependencies # {} THEN [@ EXCEPT ![key] = dependencies] ELSE @,
        !.ops = @ + 1,
        !.last = [op |-> "set", group |-> "", again |-> FALSE]]

RECURSIVE deletes(_, _)
\* the delete calls of lines 309-318 for the keys of a group
deletes(s, keys) ==
    IF keys = {} THEN 0
    ELSE LET key == CHOOSE k \in keys : TRUE
         IN  1 + Cardinality(s.dependency_map[key]) + deletes(s, keys \ {key})

\* The group keeps its keys.
invalidate_group_keeps_group(s, group) ==
    LET keys_to_invalidate == s.invalidation_groups[group]
        deleted == keys_to_invalidate
                       \cup UNION {s.dependency_map[k] : k \in keys_to_invalidate}
        invalidated == deletes(s, keys_to_invalidate)
    IN  [s EXCEPT
            !.store = [k \in (DOMAIN @) \ deleted |-> @[k]],
            !.evictions = @ + invalidated,
            !.result = invalidated,
            !.ops = @ + 1,
            !.last = [op |-> "invalidate_group", group |-> group,
                      again |-> s.last.op = "invalidate_group" /\ s.last.group = group]]

\* invalidate_group, lines 294-329
invalidate_group(s, group) ==
    LET keys_to_invalidate == s.invalidation_groups[group]
        deleted == keys_to_invalidate
                       \cup UNION {s.dependency_map[k] : k \in keys_to_invalidate}
        invalidated == deletes(s, keys_to_invalidate)
    IN  [s EXCEPT
            !.store = [k \in (DOMAIN @) \ deleted |-> @[k]],
            !.invalidation_groups[group] = {},
            !.evictions = @ + invalidated,
            !.result = invalidated,
            !.ops = @ + 1,
            !.last = [op |-> "invalidate_group", group |-> group,
                      again |-> s.last.op = "invalidate_group" /\ s.last.group = group]]

InitRC ==
    rc = [store |-> EmptyDict,
          invalidation_groups |-> [g \in RGroups |-> {}],
          dependency_map |-> [k \in RKeys |-> {}],
          evictions |-> 0, result |-> 0, ops |-> 0,
          last |-> [op |-> "", group |-> "", again |-> FALSE]]

Set(key, groups, dependencies) ==
    /\ rc.ops < MaxCacheOps
    /\ rc' = set(rc, key, groups, dependencies)
    /\ UNCHANGED nonRC

InvalidateGroup(group) ==
    /\ rc.ops < MaxCacheOps
    /\ rc' = invalidate_group(rc, group)
    /\ UNCHANGED nonRC

NextRC ==
    \/ \E k \in RKeys, gs \in SUBSET RGroups,
          ds \in {{}} \cup {{d} : d \in RKeys} : Set(k, gs, ds \ {k})
    \/ \E g \in RGroups : InvalidateGroup(g)

----------------------------------------------------------------------------
(* RateLimitMiddleware (middleware/performance.py)                         *)
(* rl.request_counts maps a client id to the timestamps kept for it, in    *)
(* ticks; rl.status is the status of the last reply, rl.client whom it     *)
(* went to and rl.retry_after its hint in seconds (0 without one).         *)

RLRequests == [client_id : {"", "h1"}, forwarded : {"", "f1"}, peer : {"p1"}]
RLClients == {"h1", "f1", "p1"}

\* _get_client_id, lines 219-231
get_client_id(request) ==
    IF request.client_id # "" THEN request.client_id
    ELSE IF request.forwarded # "" THEN request.forwarded
    ELSE request.peer

\* dispatch, lines 233-281
dispatch(s, request) ==
    LET client_id == get_client_id(request)
        kept == SelectSeq(s.request_counts[client_id],
                          LAMBDA t : (s.now - t) * SecondsPerTick < 60)
        recent_requests == SelectSeq(kept, LAMBDA t : (s.now - t) * SecondsPerTick < 10)
    IN  IF Len(kept) >= requests_per_minute /\ Len(recent_requests) >= burst_size
        THEN [s EXCEPT !.request_counts[client_id] = kept,
                       !.status = "429",
                       !.client = client_id,
                       !.retry_after = 60 - (s.now - kept[1]) * SecondsPerTick]
        ELSE [s EXCEPT !.request_counts[client_id] = Append(kept, s.now),
                       !.status = "200",
                       !.client = client_id,
                       !.retry_after = 0]

InitRL ==
    rl = [now |-> 0, request_counts |-> [c \in RLClients |-> <<>>],
          status |-> None, client |-> None, retry_after |-> 0]

RLTick ==
    /\ rl.now < MaxRLTime
    /\ rl' = [rl EXCEPT !.now = @ + 1]
    /\ UNCHANGED nonRL

Dispatch(request) ==
    /\ Len(rl.request_counts["h1"]) + Len(rl.request_counts["f1"])
         + Len(rl.request_counts["p1"]) < MaxKept
    /\ rl' = dispatch(rl, request)
    /\ UNCHANGED nonRL

NextRL ==
    \/ RLTick
    \/ \E r \in RLRequests : Dispatch(r)

----------------------------------------------------------------------------
(* Specifications                                                          *)

Init == InitWS /\ InitLAUnkeyed /\ InitELA /\ InitAU /\ InitAuth /\ InitRT /\ InitAI /\ InitRC /\ InitRL

\* The connection fabric with two client ids.
SpecWS == Init /\ [][NextWS]_vars
\* One connection followed for longer, with the idle cleanup.
InitSpecOne == InitOne /\ InitLAUnkeyed /\ InitELA /\ InitAU /\ InitAuth /\ InitRT /\ InitAI /\ InitRC /\ InitRL
SpecOne == InitSpecOne /\ [][NextOne]_vars
\* The workflow service of logic_apps.py.
InitSpecLA == InitWS /\ InitLA /\ InitELA /\ InitAU /\ InitAuth /\ InitRT /\ InitAI /\ InitRC /\ InitRL
SpecLA == InitSpecLA /\ [][NextLA]_vars
\* The workflow service of logic_apps_enhanced.py.
InitSpecELA == InitWS /\ InitLAUnkeyed /\ InitELA /\ InitAU /\ InitAuth /\ InitRT /\ InitAI /\ InitRC /\ InitRL
SpecELA == InitSpecELA /\ [][NextELA]_vars
\* The same service with its scheduler and create_workflow.
NextSched ==
    \/ NextELA
    \/ \E ok \in BOOLEAN : CreateWorkflow(ok)
    \/ \E d \in ScheduledDefs : ScheduleDue(d)
    \/ RunPending
InitSpecSched == InitWS /\ InitLAUnkeyed /\ InitELA /\ InitAU /\ InitAuth /\ InitRT /\ InitAI /\ InitRC /\ InitRL
SpecSched == InitSpecSched /\ [][NextSched]_vars
\* The audit trail.
InitSpecAudit == InitWS /\ InitLAUnkeyed /\ InitELA /\ InitAU /\ InitAuth /\ InitRT /\ InitAI /\ InitRC /\ InitRL
SpecAudit == InitSpecAudit /\ [][NextAU]_vars

\* The processor loops while self.processing is set, so a round that can
\* start does start and a post that was made comes back; the external
\* service is taken not to refuse batches for ever.
InitSpecEgress == InitWS /\ InitLAUnkeyed /\ InitELA /\ InitAU /\ InitAuth /\ InitRT /\ InitAI /\ InitRC /\ InitRL
SpecEgress ==
    /\ InitSpecEgress
    /\ [][NextEgress]_vars
    /\ WF_vars(ProcessQueue)
    /\ SF_vars(BatchDelivered)
\* Login, lockout, revocation and logout.
InitSpecAuth == InitWS /\ InitLAUnkeyed /\ InitELA /\ InitAU /\ InitAuth /\ InitRT /\ InitAI /\ InitRC /\ InitRL
SpecAuth == InitSpecAuth /\ [][NextAuth]_vars
\* The model router.
InitSpecRouter == InitWS /\ InitLAUnkeyed /\ InitELA /\ InitAU /\ InitAuth /\ InitRT /\ InitAI /\ InitRC /\ InitRL
SpecRouter == InitSpecRouter /\ [][NextRT]_vars
\* Chat requests with the response cache and the cost accounting.
InitSpecAI == InitWS /\ InitLAUnkeyed /\ InitELA /\ InitAU /\ InitAuth /\ InitRT /\ InitAI /\ InitRC /\ InitRL
SpecAI == InitSpecAI /\ [][NextAI]_vars
\* The cluster cache with its invalidation groups.
InitSpecRC == InitWS /\ InitLAUnkeyed /\ InitELA /\ InitAU /\ InitAuth /\ InitRT /\ InitAI /\ InitRC /\ InitRL
SpecRC == InitSpecRC /\ [][NextRC]_vars
\* The rate limiter.
InitSpecRL == InitWS /\ InitLAUnkeyed /\ InitELA /\ InitAU /\ InitAuth /\ InitRT /\ InitAI /\ InitRC /\ InitRL
SpecRL == InitSpecRL /\ [][NextRL]_vars

----------------------------------------------------------------------------
(* Properties of the connection fabric                                     *)

Personal(q) == SelectSeq(q, LAMBDA f : f.type # "broadcast")
Count(q, f) == Cardinality({i \in 1..Len(q) : q[i] = f})

\* C1: the admission pool never holds more than max_connections
\* connections, nothing ever waits for a permit, and a connect made while
\* max_connections are admitted is refused with close code 1013, returns no
\* client id and admits nobody.
C1_AdmissionCap ==
    [][ /\ cm'.active_count <= max_connections
        /\ Cardinality(cm'.active_connections) <= max_connections
        /\ waiting(cm') = 0
        /\ cm'.sem_waiters = 0
        /\ \A c \in Clients, g \in Groups, ok \in BOOLEAN :
              (cm.active_count = max_connections /\ Connect(c, g, ok))
              => /\ cm'.connect_result = Refused
                 /\ cm'.active_count = cm.active_count
                 /\ cm'.active_connections = cm.active_connections ]_vars

C1_Witness ==
    /\ cm.active_count = max_connections
    /\ Cardinality(cm.active_connections) = max_connections
    /\ cm.connect_result = Refused

C3_BatchSentAtWindow ==
    \A c \in cm.active_connections :
        (c \in DOMAIN cm.batch_tasks /\ cm.batch_tasks[c] = "done")
            => Get(cm.batches, c, <<>>) = <<>>

\* C4: the frames passed to send_personal_message during a connection
\* (from its welcome frame on; ids are given in the order of the calls)
\* reach the peer in the order in which they were passed, whatever the mix
\* of batched and bypass-batch frames.
C4_DeliveredInOrder ==
    \A c \in Clients :
        LET q == Personal(cm.wire[c])
            welcome == {q[i].id : i \in {k \in 1..Len(q) : q[k].type = "connection"}}
            during(i) == \A w \in welcome : q[i].id >= w
        IN  \A i, j \in 1..Len(q) :
                (i < j /\ during(i) /\ during(j)) => q[i].id < q[j].id

\* C5: a broadcast resolves its targets once, to the connected members of
\* the group (all connected clients without a group) less the excluded
\* client; it performs one send operation per target and none for anybody
\* else, N in all for N targets, and no client receives the frame twice.
C5_BroadcastOneSendEach ==
    bc.phase = "sending" =>
        LET targets == bc.members \ {bc.exclude}
            done == {bc.send_tasks[i] : i \in 1..Len(bc.results)}
        IN  /\ Range(bc.send_tasks) = targets
            /\ Len(bc.send_tasks) = Cardinality(targets)
            /\ \A c \in Clients :
                  /\ bc.send_ops[c] = (IF c \in done THEN 1 ELSE 0)
                  /\ Count(cm.wire[c], bc.frame) <= bc.send_ops[c]
            /\ Len(bc.results) = Len(bc.send_tasks) => done = targets

C5_Witness ==
    /\ bc.phase = "sending"
    /\ bc.alias # None
    /\ Cardinality(bc.members) = 2
    /\ Len(bc.results) = 2
    /\ \A c \in bc.members : Count(cm.wire[c], bc.frame) = 1

\* C6: the step that closes a connection cancels its heartbeat task, takes
\* the client out of every group, releases one permit and leaves no entry
\* for the client in the batch buffers, the batch timers, the dedup caches
\* and the message queues.
C6_DisconnectDropsAll ==
    [][ \A c \in Clients :
          (c \in cm.active_connections /\ cm' = disconnect(cm, c))
          => /\ c \notin cm'.heartbeat_tasks
             /\ \A g \in Groups : c \notin cm'.connection_groups[g]
             /\ c \notin DOMAIN cm'.client_groups
             /\ cm'.active_count = cm.active_count - 1
             /\ c \notin cm'.message_queues
             /\ c \notin DOMAIN cm'.connection_metadata
             /\ c \notin DOMAIN cm'.batches
             /\ c \notin DOMAIN cm'.message_cache ]_vars

\* C7: a run of the cleanup task disconnects every client whose
\* last_activity is older than 30 minutes, and the client has received the
\* disconnect notice by then.
C7_CleanupDisconnectsIdle ==
    [][ Cleanup =>
          \A c \in inactive(cm) :
              /\ c \notin cm'.active_connections
              /\ \E i \in 1..Len(cm'.wire[c]) :
                    /\ i > Len(cm.wire[c])
                    /\ cm'.wire[c][i].type = NoticeType ]_vars

----------------------------------------------------------------------------
(* Properties of the workflow services                                     *)

Rank(status) ==
    CASE status = "pending" -> 0
      [] status = "running" -> 1
      [] OTHER -> 2
TerminalStatus == {"completed", "failed", "cancelled", "timeout"}

\* C9: the status of an execution never moves backward (pending, then
\* running, then terminal) and a terminal status (completed, failed,
\* cancelled, timed out) is never overwritten, also when cancel_workflow
\* comes between the start of the external call and its response.
C9_StatusNeverBackward ==
    [][ \A w \in DOMAIN la.workflows :
          la'.workflows[w].serial = la.workflows[w].serial
          => /\ Rank(la'.workflows[w].status) >= Rank(la.workflows[w].status)
             /\ la.workflows[w].status \in TerminalStatus
                  => la'.workflows[w].status = la.workflows[w].status ]_vars

\* C10: an execution whose external call returned a non-2xx status, raised
\* or timed out is never recorded as completed.
C10_FailedCallNotCompleted ==
    \A e \in 1..Len(ela.workflows) :
        ela.workflows[e].outcome \in {"non2xx", "raised", "timeout"}
            => ela.workflows[e].status # "completed"

\* C11: for a definition with retry_on_failure an attempt that failed (its
\* external call came back non-2xx, raised or timed out, or its helper
\* raised) is recorded failed; the k-th failed attempt is followed by a
\* wait of 60 * k seconds while k < max_retries, the max_retries-th failure
\* is final, and the chain never makes more than max_retries attempts
\* (stated for a definition that was started once).
C11_RetryBackoffBounded ==
    \A e \in 1..Len(ela.workflows) :
        LET w == ela.workflows[e]
            failing == \/ w.status = "failed"
                       \/ w.outcome \in {"non2xx", "raised", "timeout"}
            started == {i \in 1..Len(ela.workflows) :
                          /\ ela.workflows[i].def = w.def
                          /\ ela.workflows[i].attempt = 1}
        IN  (retry_on_failure(w.def) /\ Cardinality(started) = 1 /\ failing)
            => /\ w.status = "failed"
               /\ w.attempt <= max_retries
               /\ w.attempt < max_retries
                    => (w.pc = "sleeping" \/ w.pc = "done") /\ w.wait = 60 * w.attempt
               /\ w.attempt = max_retries => w.pc = "done" /\ w.wait = 0

\* C12: each time the scheduler checks, every stored definition with a
\* scheduled trigger whose schedule is due, the predefined ones included,
\* gets a new execution.
C12_DueDefinitionEnqueued ==
    [][ RunPending =>
          \A d \in ela.due :
              \E e \in (Len(ela.workflows) + 1)..Len(ela'.workflows) :
                  ela'.workflows[e].def = d ]_vars

\* C13: a callback whose signature header does not verify against the
\* shared secret, or whose timestamp is more than 5 minutes from now, is
\* discarded: no workflow record changes and no callback marker is set.
C13_BadCallbackDiscarded ==
    [][ \A p \in Payloads, sig \in Signatures :
          ( /\ HandleWebhook(p, sig)
            /\ \/ (sig.present /\ sig # hmac(SharedSecret, p))
               \/ ~p.fresh )
          => la'.workflows = la.workflows ]_vars

----------------------------------------------------------------------------
(* Properties of the audit trail                                           *)

Tampered(s) == {i \in 1..Len(s.store) : s.store[i] # s.logged[i]}

\* C14: once a stored field of a logged event was changed, a compliance
\* report over a window that contains the event says integrity_verified =
\* false.
C14_TamperingReported ==
    [][ (GenerateComplianceReport /\ Tampered(au) # {})
          => ~au'.report.integrity_verified ]_vars

\* C15: each event's hash is computed over the hash of the event stored
\* just before it, no two events are chained to the same previous hash, and
\* the last-hash pointer is the hash of the event stored last, however the
\* log_event calls interleave.
C15_ChainHeadSerialized ==
    /\ \A i \in 1..Len(au.store) :
          au.store[i].hash =
              <<au.logged[i].event_id, au.logged[i].action>>
                  \o (IF i = 1 THEN <<>> ELSE au.store[i - 1].hash)
    /\ \A i, j \in 1..Len(au.store) :
          i # j => Tail(Tail(au.store[i].hash)) # Tail(Tail(au.store[j].hash))
    /\ au.last_hash =
          (IF au.store = <<>> THEN <<>> ELSE au.store[Len(au.store)].hash)

C15_Witness ==
    /\ Len(au.store) >= 2
    /\ au.sending >= 2
    /\ au.last_hash = au.store[Len(au.store)].hash

----------------------------------------------------------------------------
(* Properties of login, revocation and logout                              *)

\* the last MAX_LOGIN_ATTEMPTS failed logins lie within the lockout duration
FailedWithinWindow(s) ==
    /\ Len(s.fails) >= MAX_LOGIN_ATTEMPTS
    /\ s.fails[Len(s.fails)] - s.fails[Len(s.fails) - MAX_LOGIN_ATTEMPTS + 1]
           < LOCKOUT_DURATION * TicksPerSecond

\* ... and no login succeeded between them
FailedInARow(s) ==
    /\ FailedWithinWindow(s)
    /\ s.fails_at_success <= Len(s.fails) - MAX_LOGIN_ATTEMPTS

SinceLastFailure(s) == s.now - s.fails[Len(s.fails)]

C17_RevokedTokenRefused ==
    (auth.revoked /\ auth.now < auth.token.exp * TicksPerSecond)
        => ~decode_token(auth)

----------------------------------------------------------------------------
(* Properties of the model router                                          *)

C20_HighAccuracyMediumToChat ==
    (rt.query # "" /\ rt.context = "high_accuracy" /\ rt.complexity_level = "medium")
        => rt.selected = "gpt-5-chat"

----------------------------------------------------------------------------
(* Properties of the chat requests                                         *)

\* C21: a request served from the cache adds the weight of the full variant
\* to the baseline total and nothing to the actual total, so the baseline is
\* that weight times the number of requests served, cache hits included.
C21_CacheHitCosting ==
    [][ (ai'.served = ai.served + 1 /\ ai'.hit) =>
            /\ ai'.baseline_cost = ai.baseline_cost + cost_multiplier("gpt-5")
            /\ ai'.total_cost = ai.total_cost
            /\ ai'.baseline_cost = cost_multiplier("gpt-5") * ai'.served ]_vars

\* C22: a non-streaming request identical to an earlier non-streaming one
\* that was answered with success, repeated within the TTL, is served from
\* the cache with the same reply and counted as a cache hit, whichever
\* variant answered the first.
C22_RepeatServedFromCache ==
    [][ \A q \in Queries, c \in Contexts, h \in HistoryTokens, o \in HttpOutcomes :
          ( /\ CallGpt5(q, c, h, FALSE, o)
            /\ <<q.text, c, h>> \in DOMAIN ai.answered
            /\ ai.now - ai.answered[<<q.text, c, h>>].at < AI_CACHE_TTL )
          => /\ ai'.hit
             /\ ai'.reply = ai.answered[<<q.text, c, h>>].reply
             /\ ai'.cache_hits = ai.cache_hits + 1 ]_vars

\* C23: when the call to the model returns a status other than 2xx or times
\* out, the request returns a fallback string without raising, adds one to
\* the fallback counter and makes no second HTTP call.
C23_FallbackCounted ==
    [][ \A q \in Queries, c \in Contexts, h \in HistoryTokens, stream \in BOOLEAN,
           o \in {"non-2xx", "timeout"} :
          (CallGpt5(q, c, h, stream, o) /\ ~ai'.hit)
          => /\ ~ai'.raised
             /\ ai'.http_calls = ai.http_calls + 1
             /\ ai'.fallback_usage = ai.fallback_usage + 1 ]_vars

----------------------------------------------------------------------------
(* Properties of the cluster cache                                         *)

\* C24: after invalidate_group(G), get finds no entry stored with the tag G
\* and no entry whose dependencies contain a key that the call removed.
C24_GroupAndDependentsGone ==
    [][ \A g \in RGroups :
          InvalidateGroup(g) =>
              \A k \in RKeys :
                  get(rc', k) =>
                      /\ g \notin rc'.store[k].groups
                      /\ rc'.store[k].dependencies
                             \cap ((DOMAIN rc.store) \ (DOMAIN rc'.store)) = {} ]_vars

\* C25: a second invalidate_group(G) made directly after the first removes
\* nothing and returns 0.
C25_InvalidateGroupIdempotent ==
    [][ \A g \in RGroups :
          ( /\ InvalidateGroup(g)
            /\ rc.last.op = "invalidate_group"
            /\ rc.last.group = g )
          => /\ rc'.result = 0
             /\ rc'.store = rc.store ]_vars

C25_Witness ==
    /\ rc.last.op = "invalidate_group"
    /\ rc.last.again
    /\ rc.evictions > 0
    /\ rc.result = 0

----------------------------------------------------------------------------
(* Properties of the rate limiter                                          *)

\* C26: for each client identity no more than requests_per_minute requests
\* are admitted in any window of 60 seconds; the ones beyond are answered
\* 429 with a retry-after hint.
C26_AdmittedWithinLimit ==
    \A c \in RLClients :
        Len(SelectSeq(rl.request_counts[c],
                      LAMBDA t : (rl.now - t) * SecondsPerTick < 60))
            <= requests_per_minute

----------------------------------------------------------------------------
(* Further properties of the connection fabric                             *)

\* C27: when broadcast returns, every send has completed or failed, exactly
\* the peers whose send failed are disconnected by it and every peer whose
\* send succeeded is still connected, also when clients joined or left
\* while the sends were in flight.
C27_BroadcastDisconnectsFailed ==
    [][ BroadcastCollect =>
          LET sent(ok) == {bc.send_tasks[i] :
                             i \in {j \in 1..Len(bc.results) : bc.results[j] = ok}}
          IN  /\ Len(bc.results) = Len(bc.send_tasks)
              /\ \A c \in sent(FALSE) : c \notin cm'.active_connections
              /\ \A c \in sent(TRUE) :
                    c \in cm.active_connections => c \in cm'.active_connections ]_vars

\* the fixed-content frames that reached the client or wait in its batch
Delivered(s, c) == {s.wire[c][i].type : i \in 1..Len(s.wire[c])}
Batched(s, c) ==
    LET b == Get(s.batches, c, <<>>) IN {b[i].type : i \in 1..Len(b)}

\* C28: a frame whose hash is in the client's dedup cache is dropped and not
\* sent; a frame whose hash is not there is recorded and sent; no hash is
\* recorded for a frame that is never delivered.
C28_RecordedIffSent ==
    [][ \A c \in Clients :
          /\ \A t \in Bodies, b \in BOOLEAN :
                (SendPersonalMessage(c, t, b) /\ is_duplicate(cm, c, t))
                    => cm'.wire[c] = cm.wire[c]
          /\ \A t \in Bodies :
                t \in Get(cm'.message_cache, c, EmptyCache).known
                    => t \in Delivered(cm', c) \cup Batched(cm', c) ]_vars

\* C29: a client's dedup cache never holds more than cache_size_limit
\* hashes, and the hash evicted when one is added to a full cache is the
\* least recently used one: never the hash that was just added.
C29_DedupCacheBoundedLRU ==
    [][ \A c \in Clients, t \in Bodies, b \in BOOLEAN :
          ( /\ SendPersonalMessage(c, t, b)
            /\ c \in cm.active_connections
            /\ ~is_duplicate(cm, c, t) )
          => /\ cache_len(cm'.message_cache[c]) <= cache_size_limit
             /\ t \in cm'.message_cache[c].known ]_vars


\* C30: an execution that failed with retries remaining and retry_on_failure
\* set is itself retried: while it waits 60 x retry_count seconds it is
\* "retrying", and the retry after the sleep runs under that same record,
\* without storing a second execution record.
C30_RetrySameExecution ==
    [][ \A e \in 1..MaxExec :
          RetryAfterSleep(e)
          => /\ ela.workflows[e].status = "retrying"
             /\ ela.workflows[e].wait = 60 * ela.retry_count[ela.workflows[e].def]
             /\ Len(ela'.workflows) = Len(ela.workflows) ]_vars

\* C31: an execution that is finally failed, its retries being exhausted,
\* has triggered the workflow_failed webhook for every subscriber of that key.
C31_FailedTriggersWebhook ==
    \A e \in 1..Len(ela.workflows) :
        LET w == ela.workflows[e]
        IN  ( /\ w.status = "failed"
              /\ w.pc = "done"
              /\ retry_on_failure(w.def)
              /\ ela.retry_count[w.def] >= max_retries
              /\ \A i \in 1..Len(ela.workflows) : ela.workflows[i].pc # "sleeping" )
            => \A subscriber \in webhook_subscriptions["workflow_failed"] :
                   <<"workflow_failed", subscriber>> \in ela.webhooks

\* C32: while a trigger_workflow call that was answered 202 is waiting and
\* no callback naming its execution has been received, the execution is not
\* recorded as completed; when the wait ran out without a callback the
\* execution is recorded as timed out.
C32_AcceptedNotCompletedBeforeCallback ==
    \A i \in 1..Len(la.calls) :
        LET call == la.calls[i]
            workflow == la.workflows[call.workflow_id]
        IN  /\ (call.pc = "waiting" /\ ~workflow.callback_response)
                => workflow.status # "completed"
            /\ (call.pc = "returned" /\ call.wait_for_response
                  /\ call.result = "timeout" /\ workflow.status # "failed")
                => workflow.status = "timeout"

\* C33: while no stored event has been modified, verifying the logged
\* events reports the chain intact, and so does a compliance report made
\* over them.
C33_UntamperedVerifies ==
    Tampered(au) = {}
        => /\ verify_integrity(au, au.store)
           /\ au.report # NoReport => au.report.integrity_verified

C35_CacheKeyedByContext ==
    [][ \A q \in Queries, c \in Contexts, h \in HistoryTokens, o \in HttpOutcomes :
          (CallGpt5(q, c, h, FALSE, o) /\ ai'.hit)
          => \A k \in cached_keys(ai, q.text, "gpt-5") : ai.stored_for[k] = c ]_vars

\* C38: the response cache holds replies of successful calls only, and a
\* request is never served from the cache with the string returned for a
\* failed call.
C38_OnlySuccessCached ==
    /\ \A k \in DOMAIN ai.cache : ai.cache[k].response[1] = "content"
    /\ ai.hit => ai.reply[1] = "content"

\* C36: the active count of the admission pool equals the number of entries
\* of the active-connection table.
C36_ActiveCountMatchesTable ==
    cm.active_count = Cardinality(cm.active_connections)

\* C37: the retry budget belongs to one triggered execution: when a newly
\* triggered execution of a definition with retry_on_failure fails for the
\* first time, it is retried after the wait of a first retry and has all
\* but one of its max_retries retries left, whatever earlier triggers of
\* the definition went through.
C37_RetryBudgetPerTrigger ==
    [][ \A d \in AllDefs :
          (ExecuteWorkflow(d, FALSE) /\ retry_on_failure(d))
          => LET w == ela'.workflows[Len(ela'.workflows)]
             IN  /\ w.pc = "sleeping"
                 /\ w.wait = 60
                 /\ max_retries - ela'.retry_count[d] = max_retries - 1 ]_vars

\* C39: every trigger_workflow call has an execution record of its own: the
\* record under the id a call was given is the one that call stored, and no
\* two calls have the same id.
C39_OwnRecordPerTrigger ==
    \A i \in 1..Len(la.calls) :
        /\ la.workflows[la.calls[i].workflow_id].serial = i
        /\ \A j \in 1..Len(la.calls) :
              i # j => la.calls[i].workflow_id # la.calls[j].workflow_id

\* C40: after logout no token of that login grants access: the access token
\* of the login is refused, and an access token minted after the logout
\* from the login's refresh token is refused both by the endpoints behind
\* get_current_user and by /ws/chat.
C40_NoAccessAfterLogout ==
    auth.logged_out
        => /\ ~decode_token(auth)
           /\ auth.minted.present
                => ~get_current_user_minted(auth) /\ ~websocket_chat(auth)

====
